---- MODULE Spec2Model ----
(***************************************************************************)
(* Air Lift: the hostess of semSharedMemHostess.c, statement by statement, *)
(* run against a pilot and a pool of passengers that follow the channel    *)
(* contract of the specification.  Every semaphore operation is one step;  *)
(* the writes of a critical region are one step of their own.              *)
(***************************************************************************)
EXTENDS Integers, Sequences, FiniteSets, TLC

(* ---- problem size (probConst.h is not part of the sources) ---- *)
N ==
  4
MINFC ==
  2
MAXFC ==
  3
MaxFail ==
  1

Passengers == 1..N
Flights == 0..(N - 1)

Channels == {"readyForBoarding", "passengersInQueue", "passengersWaitInQueue",
             "idShown", "readyToFlight"}
Semaphores == Channels \cup {"mutex"}

HostessId == <<"hostess", 0>>
PilotId == <<"pilot", 0>>
PassengerId(p) == <<"passenger", p>>

VARIABLES
  hpc,                 \* hostess: position in main and its four operations
  nPassengers,         \* hostess: local counter of main
  last,                \* hostess: value returned by checkPassport
  hostessStat,         \* sh->fSt.st.hostessStat
  nPassInQueue,        \* sh->fSt.nPassInQueue
  nPassInFlight,       \* sh->fSt.nPassInFlight
  totalPassBoarded,    \* sh->fSt.totalPassBoarded
  nFlight,             \* sh->fSt.nFlight
  nPassengersInFlight, \* sh->fSt.nPassengersInFlight[]
  finished,            \* sh->fSt.finished
  passengerChecked,    \* identity of the passenger at the checkpoint
  sem,                 \* value of every semaphore of the set semgid
  ppc,                 \* position of every passenger
  plpc,                \* position of the pilot
  holder,              \* history: who is between a down and an up of mutex
  raised,              \* history: ups completed, per semaphore
  waited,              \* history: downs completed, per semaphore
  recorded,            \* history: slots written by signalReadyToFlight
  boardLog,            \* history: what savePassengerChecked logged
  qSeen,               \* history: queue length read by the last checkPassport
  nFail                \* number of primitive calls that returned -1

hlocal == <<nPassengers, last>>
fSt == <<hostessStat, nPassInQueue, nPassInFlight, totalPassBoarded, nFlight,
         nPassengersInFlight, finished, passengerChecked>>
semv == <<sem, holder, raised, waited>>
hist == <<recorded, boardLog, qSeen>>
vars == <<hpc, hlocal, fSt, semv, ppc, plpc, hist, nFail>>

(* ---- the semaphore primitives ---- *)
semDown(s, who) ==
  /\ sem[s] > 0
  /\ sem' = [sem EXCEPT ![s] = @ - 1]
  /\ waited' = [waited EXCEPT ![s] = @ + 1]
  /\ holder' = IF s = "mutex" THEN holder \cup {who} ELSE holder
  /\ UNCHANGED raised

semUp(s, who) ==
  /\ sem' = [sem EXCEPT ![s] = @ + 1]
  /\ raised' = [raised EXCEPT ![s] = @ + 1]
  /\ holder' = IF s = "mutex" THEN holder \ {who} ELSE holder
  /\ UNCHANGED waited

Init ==
  /\ hpc = "main_while"
  /\ nPassengers = 0
  /\ last = FALSE
  /\ hostessStat = "WAIT_FOR_FLIGHT"
  /\ nPassInQueue = 0
  /\ nPassInFlight = 0
  /\ totalPassBoarded = 0
  /\ nFlight = 0
  /\ nPassengersInFlight = [i \in Flights |-> 0]
  /\ finished = FALSE
  /\ passengerChecked = 0
  /\ sem = [s \in Semaphores |-> IF s = "mutex" THEN 1 ELSE 0]
  /\ ppc = [p \in Passengers |-> "travel"]
  /\ plpc = "pl_loop"
  /\ holder = {}
  /\ raised = [s \in Semaphores |-> 0]
  /\ waited = [s \in Semaphores |-> 0]
  /\ recorded = {}
  /\ boardLog = <<>>
  /\ qSeen = 0
  /\ nFail = 0

(* ---- main ---- *)
main_while_inclusive ==
  /\ hpc = "main_while"
  /\ hpc' = IF nPassengers <= N THEN "wf_down" ELSE "done"
  /\ UNCHANGED <<hlocal, fSt, semv, ppc, plpc, hist, nFail>>

main_while ==
  /\ hpc = "main_while"
  /\ hpc' = IF nPassengers < N THEN "wf_down" ELSE "done"
  /\ UNCHANGED <<hlocal, fSt, semv, ppc, plpc, hist, nFail>>

(* ---- waitForNextFlight ---- *)
waitForNextFlight_down ==
  /\ hpc = "wf_down"
  /\ semDown("mutex", HostessId)
  /\ hpc' = "wf_set"
  /\ UNCHANGED <<hlocal, fSt, ppc, plpc, hist, nFail>>

waitForNextFlight_set ==
  /\ hpc = "wf_set"
  /\ hostessStat' = "WAIT_FOR_FLIGHT"
  /\ hpc' = "wf_up"
  /\ UNCHANGED <<hlocal, nPassInQueue, nPassInFlight, totalPassBoarded,
                 nFlight, nPassengersInFlight, finished, passengerChecked,
                 semv, ppc, plpc, hist, nFail>>

waitForNextFlight_up ==
  /\ hpc = "wf_up"
  /\ semUp("mutex", HostessId)
  /\ hpc' = "wf_wait"
  /\ UNCHANGED <<hlocal, fSt, ppc, plpc, hist, nFail>>

waitForNextFlight_wait ==
  /\ hpc = "wf_wait"
  /\ semDown("readyForBoarding", HostessId)
  /\ hpc' = "wp_down"
  /\ UNCHANGED <<hlocal, fSt, ppc, plpc, hist, nFail>>

(* ---- waitForPassenger ---- *)
waitForPassenger_down ==
  /\ hpc = "wp_down"
  /\ semDown("mutex", HostessId)
  /\ hpc' = "wp_set"
  /\ UNCHANGED <<hlocal, fSt, ppc, plpc, hist, nFail>>

waitForPassenger_set ==
  /\ hpc = "wp_set"
  /\ hostessStat' = "WAIT_FOR_PASSENGER"
  /\ hpc' = "wp_up"
  /\ UNCHANGED <<hlocal, nPassInQueue, nPassInFlight, totalPassBoarded,
                 nFlight, nPassengersInFlight, finished, passengerChecked,
                 semv, ppc, plpc, hist, nFail>>

waitForPassenger_up ==
  /\ hpc = "wp_up"
  /\ semUp("mutex", HostessId)
  /\ hpc' = "wp_wait"
  /\ UNCHANGED <<hlocal, fSt, ppc, plpc, hist, nFail>>

waitForPassenger_wait_noDown ==
  /\ hpc = "wp_wait"
  /\ hpc' = "cp_down1"
  /\ UNCHANGED <<hlocal, fSt, semv, ppc, plpc, hist, nFail>>

waitForPassenger_wait ==
  /\ hpc = "wp_wait"
  /\ semDown("passengersInQueue", HostessId)
  /\ hpc' = "cp_down1"
  /\ UNCHANGED <<hlocal, fSt, ppc, plpc, hist, nFail>>

(* ---- checkPassport ---- *)
checkPassport_last_noMax(inFlight, inQueue, total, n, minfc, maxfc) ==
  \/ (inFlight >= minfc /\ inQueue = 0)
  \/ total = n

checkPassport_last(inFlight, inQueue, total, n, minfc, maxfc) ==
  \/ inFlight = maxfc
  \/ (inFlight >= minfc /\ inQueue = 0)
  \/ total = n

checkPassport_down1 ==
  /\ hpc = "cp_down1"
  /\ semDown("mutex", HostessId)
  /\ hpc' = "cp_set"
  /\ UNCHANGED <<hlocal, fSt, ppc, plpc, hist, nFail>>

checkPassport_set ==
  /\ hpc = "cp_set"
  /\ hostessStat' = "CHECK_PASSPORT"
  /\ hpc' = "cp_up1"
  /\ UNCHANGED <<hlocal, nPassInQueue, nPassInFlight, totalPassBoarded,
                 nFlight, nPassengersInFlight, finished, passengerChecked,
                 semv, ppc, plpc, hist, nFail>>

checkPassport_up1_noUnlock ==
  /\ hpc = "cp_up1"
  /\ hpc' = "cp_admit"
  /\ UNCHANGED <<hlocal, fSt, semv, ppc, plpc, hist, nFail>>

checkPassport_up1 ==
  /\ hpc = "cp_up1"
  /\ semUp("mutex", HostessId)
  /\ hpc' = "cp_admit"
  /\ UNCHANGED <<hlocal, fSt, ppc, plpc, hist, nFail>>

checkPassport_admit ==
  /\ hpc = "cp_admit"
  /\ semUp("passengersWaitInQueue", HostessId)
  /\ hpc' = "cp_waitId"
  /\ UNCHANGED <<hlocal, fSt, ppc, plpc, hist, nFail>>

checkPassport_waitId_noWait ==
  /\ hpc = "cp_waitId"
  /\ hpc' = "cp_down2"
  /\ UNCHANGED <<hlocal, fSt, semv, ppc, plpc, hist, nFail>>

checkPassport_waitId ==
  /\ hpc = "cp_waitId"
  /\ semDown("idShown", HostessId)
  /\ hpc' = "cp_down2"
  /\ UNCHANGED <<hlocal, fSt, ppc, plpc, hist, nFail>>

checkPassport_down2_noLock ==
  /\ hpc = "cp_down2"
  /\ hpc' = "cp_update"
  /\ UNCHANGED <<hlocal, fSt, semv, ppc, plpc, hist, nFail>>

checkPassport_down2 ==
  /\ hpc = "cp_down2"
  /\ semDown("mutex", HostessId)
  /\ hpc' = "cp_update"
  /\ UNCHANGED <<hlocal, fSt, ppc, plpc, hist, nFail>>

checkPassport_update_stale ==
  /\ hpc = "cp_update"
  /\ last' = checkPassport_last(nPassInFlight, nPassInQueue,
                              totalPassBoarded, N, MINFC, MAXFC)
  /\ nPassInQueue' = nPassInQueue - 1
  /\ nPassInFlight' = nPassInFlight + 1
  /\ totalPassBoarded' = totalPassBoarded + 1
  /\ boardLog' = Append(boardLog, <<passengerChecked, nFlight>>)
  /\ qSeen' = nPassInQueue
  /\ hpc' = "cp_up2"
  /\ UNCHANGED <<nPassengers, hostessStat, nFlight, nPassengersInFlight,
                 finished, passengerChecked, semv, ppc, plpc, recorded, nFail>>

checkPassport_update_doubleDecrement ==
  /\ hpc = "cp_update"
  /\ nPassInQueue' = nPassInQueue - 2
  /\ nPassInFlight' = nPassInFlight + 1
  /\ totalPassBoarded' = totalPassBoarded + 1
  /\ last' = checkPassport_last(nPassInFlight', nPassInQueue',
                              totalPassBoarded', N, MINFC, MAXFC)
  /\ boardLog' = Append(boardLog, <<passengerChecked, nFlight>>)
  /\ qSeen' = nPassInQueue'
  /\ hpc' = "cp_up2"
  /\ UNCHANGED <<nPassengers, hostessStat, nFlight, nPassengersInFlight,
                 finished, passengerChecked, semv, ppc, plpc, recorded, nFail>>

checkPassport_update ==
  /\ hpc = "cp_update"
  /\ nPassInQueue' = nPassInQueue - 1
  /\ nPassInFlight' = nPassInFlight + 1
  /\ totalPassBoarded' = totalPassBoarded + 1
  /\ last' = checkPassport_last(nPassInFlight', nPassInQueue',
                              totalPassBoarded', N, MINFC, MAXFC)
  /\ boardLog' = Append(boardLog, <<passengerChecked, nFlight>>)
  /\ qSeen' = nPassInQueue'
  /\ hpc' = "cp_up2"
  /\ UNCHANGED <<nPassengers, hostessStat, nFlight, nPassengersInFlight,
                 finished, passengerChecked, semv, ppc, plpc, recorded, nFail>>

checkPassport_up2 ==
  /\ hpc = "cp_up2"
  /\ semUp("mutex", HostessId)
  /\ hpc' = "cp_ret"
  /\ UNCHANGED <<hlocal, fSt, ppc, plpc, hist, nFail>>

main_doWhile_once ==
  /\ hpc = "cp_ret"
  /\ nPassengers' = nPassengers + 1
  /\ hpc' = "srf_down"
  /\ UNCHANGED <<last, fSt, semv, ppc, plpc, hist, nFail>>

main_doWhile_noCount ==
  /\ hpc = "cp_ret"
  /\ hpc' = IF last THEN "srf_down" ELSE "wp_down"
  /\ UNCHANGED <<hlocal, fSt, semv, ppc, plpc, hist, nFail>>

main_doWhile ==
  /\ hpc = "cp_ret"
  /\ nPassengers' = nPassengers + 1
  /\ hpc' = IF last THEN "srf_down" ELSE "wp_down"
  /\ UNCHANGED <<last, fSt, semv, ppc, plpc, hist, nFail>>

(* ---- signalReadyToFlight ---- *)
signalReadyToFlight_down ==
  /\ hpc = "srf_down"
  /\ semDown("mutex", HostessId)
  /\ hpc' = "srf_set"
  /\ UNCHANGED <<hlocal, fSt, ppc, plpc, hist, nFail>>

signalReadyToFlight_set_recordsTotal ==
  /\ hpc = "srf_set"
  /\ hostessStat' = "READY_TO_FLIGHT"
  /\ nPassengersInFlight' =
       IF nFlight - 1 \in Flights
       THEN [nPassengersInFlight EXCEPT ![nFlight - 1] = totalPassBoarded]
       ELSE nPassengersInFlight
  /\ recorded' = recorded \cup {nFlight - 1}
  /\ finished' = (totalPassBoarded = N)
  /\ hpc' = "srf_up"
  /\ UNCHANGED <<hlocal, nPassInQueue, nPassInFlight, totalPassBoarded,
                 nFlight, passengerChecked, semv, ppc, plpc, boardLog, qSeen,
                 nFail>>

signalReadyToFlight_set_alwaysFinished ==
  /\ hpc = "srf_set"
  /\ hostessStat' = "READY_TO_FLIGHT"
  /\ nPassengersInFlight' =
       IF nFlight - 1 \in Flights
       THEN [nPassengersInFlight EXCEPT ![nFlight - 1] = nPassInFlight]
       ELSE nPassengersInFlight
  /\ recorded' = recorded \cup {nFlight - 1}
  /\ finished' = TRUE
  /\ hpc' = "srf_up"
  /\ UNCHANGED <<hlocal, nPassInQueue, nPassInFlight, totalPassBoarded,
                 nFlight, passengerChecked, semv, ppc, plpc, boardLog, qSeen,
                 nFail>>

signalReadyToFlight_set_slotZero ==
  /\ hpc = "srf_set"
  /\ hostessStat' = "READY_TO_FLIGHT"
  /\ nPassengersInFlight' = [nPassengersInFlight EXCEPT ![0] = nPassInFlight]
  /\ recorded' = recorded \cup {0}
  /\ finished' = (totalPassBoarded = N)
  /\ hpc' = "srf_up"
  /\ UNCHANGED <<hlocal, nPassInQueue, nPassInFlight, totalPassBoarded,
                 nFlight, passengerChecked, semv, ppc, plpc, boardLog, qSeen,
                 nFail>>

signalReadyToFlight_set_noRecord ==
  /\ hpc = "srf_set"
  /\ hostessStat' = "READY_TO_FLIGHT"
  /\ finished' = (totalPassBoarded = N)
  /\ hpc' = "srf_up"
  /\ UNCHANGED <<hlocal, nPassInQueue, nPassInFlight, totalPassBoarded,
                 nFlight, nPassengersInFlight, passengerChecked, semv, ppc,
                 plpc, hist, nFail>>

signalReadyToFlight_set ==
  /\ hpc = "srf_set"
  /\ hostessStat' = "READY_TO_FLIGHT"
  /\ nPassengersInFlight' =
       IF nFlight - 1 \in Flights
       THEN [nPassengersInFlight EXCEPT ![nFlight - 1] = nPassInFlight]
       ELSE nPassengersInFlight
  /\ recorded' = recorded \cup {nFlight - 1}
  /\ finished' = (totalPassBoarded = N)
  /\ hpc' = "srf_up"
  /\ UNCHANGED <<hlocal, nPassInQueue, nPassInFlight, totalPassBoarded,
                 nFlight, passengerChecked, semv, ppc, plpc, boardLog, qSeen,
                 nFail>>

signalReadyToFlight_up ==
  /\ hpc = "srf_up"
  /\ semUp("mutex", HostessId)
  /\ hpc' = "srf_sig"
  /\ UNCHANGED <<hlocal, fSt, ppc, plpc, hist, nFail>>

signalReadyToFlight_sig_silent ==
  /\ hpc = "srf_sig"
  /\ hpc' = "main_while"
  /\ UNCHANGED <<hlocal, fSt, semv, ppc, plpc, hist, nFail>>

signalReadyToFlight_sig_twice ==
  /\ hpc = "srf_sig"
  /\ sem' = [sem EXCEPT !["readyToFlight"] = @ + 2]
  /\ raised' = [raised EXCEPT !["readyToFlight"] = @ + 2]
  /\ hpc' = "main_while"
  /\ UNCHANGED <<hlocal, fSt, holder, waited, ppc, plpc, hist, nFail>>

signalReadyToFlight_sig ==
  /\ hpc = "srf_sig"
  /\ semUp("readyToFlight", HostessId)
  /\ hpc' = "main_while"
  /\ UNCHANGED <<hlocal, fSt, ppc, plpc, hist, nFail>>

(* ---- the passengers (channel contract of the specification) ---- *)
passenger_arrive(p) ==
  /\ ppc[p] = "travel"
  /\ semDown("mutex", PassengerId(p))
  /\ ppc' = [ppc EXCEPT ![p] = "q_cs"]
  /\ UNCHANGED <<hpc, hlocal, fSt, plpc, hist, nFail>>

passenger_enqueue(p) ==
  /\ ppc[p] = "q_cs"
  /\ nPassInQueue' = nPassInQueue + 1
  /\ semUp("mutex", PassengerId(p))
  /\ ppc' = [ppc EXCEPT ![p] = "q_sig"]
  /\ UNCHANGED <<hpc, hlocal, hostessStat, nPassInFlight, totalPassBoarded,
                 nFlight, nPassengersInFlight, finished, passengerChecked,
                 plpc, hist, nFail>>

passenger_signalArrived(p) ==
  /\ ppc[p] = "q_sig"
  /\ semUp("passengersInQueue", PassengerId(p))
  /\ ppc' = [ppc EXCEPT ![p] = "q_wait"]
  /\ UNCHANGED <<hpc, hlocal, fSt, plpc, hist, nFail>>

passenger_waitAdmit(p) ==
  /\ ppc[p] = "q_wait"
  /\ semDown("passengersWaitInQueue", PassengerId(p))
  /\ ppc' = [ppc EXCEPT ![p] = "id_lock"]
  /\ UNCHANGED <<hpc, hlocal, fSt, plpc, hist, nFail>>

passenger_idLock(p) ==
  /\ ppc[p] = "id_lock"
  /\ semDown("mutex", PassengerId(p))
  /\ ppc' = [ppc EXCEPT ![p] = "id_cs"]
  /\ UNCHANGED <<hpc, hlocal, fSt, plpc, hist, nFail>>

passenger_showId(p) ==
  /\ ppc[p] = "id_cs"
  /\ passengerChecked' = p
  /\ semUp("mutex", PassengerId(p))
  /\ ppc' = [ppc EXCEPT ![p] = "id_sig"]
  /\ UNCHANGED <<hpc, hlocal, hostessStat, nPassInQueue, nPassInFlight,
                 totalPassBoarded, nFlight, nPassengersInFlight, finished,
                 plpc, hist, nFail>>

passenger_signalId(p) ==
  /\ ppc[p] = "id_sig"
  /\ semUp("idShown", PassengerId(p))
  /\ ppc' = [ppc EXCEPT ![p] = "boarded"]
  /\ UNCHANGED <<hpc, hlocal, fSt, plpc, hist, nFail>>

(* ---- the pilot (channel contract of the specification) ---- *)
pilot_lock ==
  /\ plpc = "pl_loop"
  /\ semDown("mutex", PilotId)
  /\ plpc' = "pl_board_cs"
  /\ UNCHANGED <<hpc, hlocal, fSt, ppc, hist, nFail>>

pilot_nextFlight ==
  /\ plpc = "pl_board_cs"
  /\ nFlight' = IF finished THEN nFlight ELSE nFlight + 1
  /\ semUp("mutex", PilotId)
  /\ plpc' = IF finished THEN "pl_done" ELSE "pl_sig"
  /\ UNCHANGED <<hpc, hlocal, hostessStat, nPassInQueue, nPassInFlight,
                 totalPassBoarded, nPassengersInFlight, finished,
                 passengerChecked, ppc, hist, nFail>>

pilot_signalBoarding ==
  /\ plpc = "pl_sig"
  /\ semUp("readyForBoarding", PilotId)
  /\ plpc' = "pl_wait"
  /\ UNCHANGED <<hpc, hlocal, fSt, ppc, hist, nFail>>

pilot_waitReadyToFlight ==
  /\ plpc = "pl_wait"
  /\ semDown("readyToFlight", PilotId)
  /\ plpc' = "pl_fly"
  /\ UNCHANGED <<hpc, hlocal, fSt, ppc, hist, nFail>>

pilot_flyLock ==
  /\ plpc = "pl_fly"
  /\ semDown("mutex", PilotId)
  /\ plpc' = "pl_fly_cs"
  /\ UNCHANGED <<hpc, hlocal, fSt, ppc, hist, nFail>>

pilot_dropPassengers ==
  /\ plpc = "pl_fly_cs"
  /\ nPassInFlight' = 0
  /\ semUp("mutex", PilotId)
  /\ plpc' = "pl_loop"
  /\ UNCHANGED <<hpc, hlocal, hostessStat, nPassInQueue, totalPassBoarded,
                 nFlight, nPassengersInFlight, finished, passengerChecked,
                 ppc, hist, nFail>>

(* ---- the system ---- *)
Hostess ==
  \/ main_while
  \/ waitForNextFlight_down
  \/ waitForNextFlight_set
  \/ waitForNextFlight_up
  \/ waitForNextFlight_wait
  \/ waitForPassenger_down
  \/ waitForPassenger_set
  \/ waitForPassenger_up
  \/ waitForPassenger_wait
  \/ checkPassport_down1
  \/ checkPassport_set
  \/ checkPassport_up1
  \/ checkPassport_admit
  \/ checkPassport_waitId
  \/ checkPassport_down2
  \/ checkPassport_update
  \/ checkPassport_up2
  \/ main_doWhile
  \/ signalReadyToFlight_down
  \/ signalReadyToFlight_set
  \/ signalReadyToFlight_up
  \/ signalReadyToFlight_sig

Passenger(p) ==
  \/ passenger_arrive(p)
  \/ passenger_enqueue(p)
  \/ passenger_signalArrived(p)
  \/ passenger_waitAdmit(p)
  \/ passenger_idLock(p)
  \/ passenger_showId(p)
  \/ passenger_signalId(p)

Pilot ==
  \/ pilot_lock
  \/ pilot_nextFlight
  \/ pilot_signalBoarding
  \/ pilot_waitReadyToFlight
  \/ pilot_flyLock
  \/ pilot_dropPassengers

Next ==
  \/ Hostess
  \/ \E p \in Passengers : Passenger(p)
  \/ Pilot

Spec == Init /\ [][Next]_vars

FairSpec ==
  /\ Spec
  /\ WF_vars(Hostess)
  /\ WF_vars(Pilot)
  /\ \A p \in Passengers : WF_vars(Passenger(p))

(* ---- primitive calls that return -1 ---- *)
MutexCalls == {"wf_down", "wf_up", "wp_down", "wp_up", "cp_down1", "cp_up1",
               "cp_down2", "cp_up2", "srf_down", "srf_up"}

ChannelCalls == {"wf_wait", "wp_wait", "cp_admit", "cp_waitId", "srf_sig"}

AfterChannelCall(pc) ==
  CASE pc = "wf_wait" -> "wp_down"
    [] pc = "wp_wait" -> "cp_down1"
    [] pc = "cp_admit" -> "cp_waitId"
    [] pc = "cp_waitId" -> "cp_down2"
    [] pc = "srf_sig" -> "main_while"

hostess_mutexCallFails ==
  /\ hpc \in MutexCalls
  /\ nFail < MaxFail
  /\ nFail' = nFail + 1
  /\ hpc' = "exit_failure"
  /\ UNCHANGED <<hlocal, fSt, semv, ppc, plpc, hist>>

hostess_channelCallFails ==
  /\ hpc \in ChannelCalls
  /\ nFail < MaxFail
  /\ nFail' = nFail + 1
  /\ hpc' = AfterChannelCall(hpc)
  /\ UNCHANGED <<hlocal, fSt, semv, ppc, plpc, hist>>

NextFail ==
  \/ Next
  \/ hostess_mutexCallFails
  \/ hostess_channelCallFails

SpecFail == Init /\ [][NextFail]_vars

(***************************************************************************)
(* Properties                                                              *)
(***************************************************************************)
RECURSIVE SumOver(_)
SumOver(S) ==
  IF S = {} THEN 0
  ELSE LET i == CHOOSE x \in S : TRUE
       IN nPassengersInFlight[i] + SumOver(S \ {i})

MutexReleased == holder = {}

\* the departure condition, as the specification words it
DepartureCondition(inFlight, inQueue, total) ==
  \/ inFlight = MAXFC
  \/ (inFlight >= MINFC /\ inQueue = 0)
  \/ total = N

Termination ==
  /\ <>(hpc = "done" /\ totalPassBoarded = N)
  /\ [](hpc # "done" => ENABLED Next)

TerminationWitness ==
  /\ hpc = "done"
  /\ totalPassBoarded = N
  /\ Cardinality(recorded) >= 2

AtRecord == hpc \in {"srf_up", "srf_sig"}

\* C4 as stated: at the moment signalReadyToFlight has recorded the flight,
\* still inside its critical section, the departure condition holds of the
\* shared state as it is then.
DepartureConditionAtRecord ==
  hpc = "srf_up" =>
    DepartureCondition(nPassInFlight, nPassInQueue, totalPassBoarded)

\* C4 amended: when signalReadyToFlight has recorded the flight, the
\* departure condition holds with the queue length that the flight's last
\* checkPassport read in its critical section; the queue may have grown
\* since, the other two counters have not changed.
DepartureConditionAtLastCheck ==
  AtRecord =>
    /\ DepartureCondition(nPassInFlight, qSeen, totalPassBoarded)
    /\ nPassInQueue >= qSeen

DepartureWitness ==
  /\ AtRecord
  /\ qSeen = 0
  /\ nPassInQueue > 0
  /\ nPassInFlight < MAXFC
  /\ totalPassBoarded < N

LoggedPassengers == {boardLog[i][1] : i \in DOMAIN boardLog}

RECURSIVE FlightsOf(_, _, _, _, _, _)
FlightsOf(qs, inFlight, total, n, minfc, maxfc) ==
  IF qs = <<>> THEN <<>>
  ELSE IF checkPassport_last(inFlight + 1, Head(qs), total + 1,
                             n, minfc, maxfc)
       THEN <<inFlight + 1>>
              \o FlightsOf(Tail(qs), 0, total + 1, n, minfc, maxfc)
       ELSE FlightsOf(Tail(qs), inFlight + 1, total + 1, n, minfc, maxfc)

\* C6: the value checkPassport returns is true exactly when the departure
\* condition holds of the counters as its own critical section left them;
\* with N=10, MINFC=3, MAXFC=5 and arrivals of 5, 3 and 2 passengers the
\* flights close at 5, 3 and 2.
LastPassengerPredicate ==
  /\ hpc = "cp_up2" =>
       (last <=>
          DepartureCondition(nPassInFlight, nPassInQueue, totalPassBoarded))
  /\ FlightsOf(<<4, 3, 2, 1, 0, 2, 1, 0, 1, 0>>, 0, 0, 10, 3, 5)
       = <<5, 3, 2>>

LastPassengerWitness ==
  /\ hpc = "cp_up2"
  /\ last
  /\ nPassInFlight < MINFC
  /\ totalPassBoarded = N

\* C7: on every channel the waits completed never exceed the raises, every
\* raise is eventually matched by a wait, and a passenger-arrived signal
\* pending when the hostess calls waitForPassenger is consumed by that call.
ChannelNoLoss ==
  /\ [](\A c \in Channels : waited[c] <= raised[c])
  /\ <>[](\A c \in Channels : waited[c] = raised[c])
  /\ \A k \in 1..N :
       (hpc = "wp_down" /\ sem["passengersInQueue"] > 0
          /\ waited["passengersInQueue"] = k - 1)
         ~> (waited["passengersInQueue"] = k /\ hpc = "cp_down1")

ChannelNoLossWitness ==
  /\ hpc = "wp_down"
  /\ sem["passengersInQueue"] > 0

\* C8: at most one actor is between a down and an up of the mutex, and
\* every step of the hostess that changes a shared field is taken while the
\* hostess holds the mutex.
MutualExclusion ==
  /\ [](Cardinality(holder) <= 1)
  /\ [][(hpc' # hpc /\ fSt' # fSt) =>
         (holder = {HostessId} /\ holder' = {HostessId})]_vars

MutualExclusionWitness ==
  /\ hpc = "cp_up2"
  /\ holder = {HostessId}
  /\ \E p \in Passengers : ppc[p] = "travel"
  /\ plpc = "pl_wait"

\* C9: while the hostess waits on boarding-authorized, passenger-arrived or
\* identity-shown it does not hold the mutex.
NoLockAcrossWait ==
  hpc \in {"wf_wait", "wp_wait", "cp_waitId"} => HostessId \notin holder

NoLockAcrossWaitWitness ==
  /\ hpc = "cp_waitId"
  /\ sem["idShown"] = 0
  /\ holder # {}

\* C10: once any acquire or release of the hostess has failed, on the
\* mutex or on a channel, the hostess has terminated with failure status.
PrimitiveFailureFatal ==
  nFail > 0 => hpc = "exit_failure"
Enqueued == {p \in Passengers : ppc[p] \notin {"travel", "q_cs"}}

\* C12: passengersInQueue is never negative; it counts the passengers that
\* have made their increment and have not yet been counted by a
\* checkPassport, so every decrement follows its passenger's increment.
QueueNeverNegative ==
  /\ nPassInQueue >= 0
  /\ nPassInQueue = Cardinality(Enqueued) - Len(boardLog)
  /\ hpc = "cp_update" => nPassInQueue >= 1

QueueNeverNegativeWitness ==
  /\ hpc = "cp_up2"
  /\ nPassInQueue = 0
  /\ Len(boardLog) >= 2

\* C13: allBoardingComplete holds only when totalBoarded = N, it becomes
\* true only in the signalReadyToFlight of the flight that brings
\* totalBoarded to N, it is never reset, and it is true when the hostess
\* is done.
BoardingCompleteOnce ==
  /\ [](finished => totalPassBoarded = N)
  /\ [](hpc = "done" => finished)
  /\ [][finished => finished']_vars
  /\ [][(~finished /\ finished') =>
         (hpc = "srf_set" /\ totalPassBoarded = N)]_vars

BoardingCompleteOnceWitness ==
  /\ finished
  /\ hpc = "srf_up"
  /\ Cardinality(recorded) >= 2
InWaitForNextFlight == hpc \in {"wf_down", "wf_set", "wf_up", "wf_wait"}

\* C14: the hostess never enters waitForNextFlight once totalBoarded = N,
\* never leaves the loop while totalBoarded < N, and when it has left, the
\* last flight has been recorded with allBoardingComplete true and its
\* flight-ready raised.
LoopExit ==
  /\ InWaitForNextFlight => totalPassBoarded < N
  /\ hpc = "done" =>
       /\ totalPassBoarded = N
       /\ finished
       /\ nFlight - 1 \in recorded
       /\ hostessStat = "READY_TO_FLIGHT"
       /\ raised["readyToFlight"] = Cardinality(recorded)

LoopExitWitness ==
  /\ hpc = "done"
  /\ Cardinality(recorded) >= 2

PhaseTransitions ==
  {<<"WAIT_FOR_FLIGHT", "WAIT_FOR_PASSENGER">>,
   <<"WAIT_FOR_PASSENGER", "CHECK_PASSPORT">>,
   <<"CHECK_PASSPORT", "WAIT_FOR_PASSENGER">>,
   <<"CHECK_PASSPORT", "READY_TO_FLIGHT">>,
   <<"READY_TO_FLIGHT", "WAIT_FOR_FLIGHT">>}

\* C15: hostessPhase changes only along WAIT_FOR_FLIGHT ->
\* WAIT_FOR_PASSENGER -> CHECK_PASSPORT -> (WAIT_FOR_PASSENGER or
\* READY_TO_FLIGHT) and READY_TO_FLIGHT -> WAIT_FOR_FLIGHT, and it leaves
\* CHECK_PASSPORT for READY_TO_FLIGHT exactly when checkPassport returned
\* true.
PhaseOrder ==
  [][hostessStat' # hostessStat =>
       /\ <<hostessStat, hostessStat'>> \in PhaseTransitions
       /\ hostessStat = "CHECK_PASSPORT" =>
            (hostessStat' = "READY_TO_FLIGHT" <=> last)]_vars

PhaseOrderWitness ==
  /\ hostessStat = "WAIT_FOR_FLIGHT"
  /\ recorded # {}
  /\ Len(boardLog) > Cardinality(recorded)

AtCheckpoint ==
  {p \in Passengers :
     \/ ppc[p] \in {"id_lock", "id_cs", "id_sig"}
     \/ (ppc[p] = "boarded" /\ p \notin LoggedPassengers)}

\* C16: the pending admits plus the passengers admitted and not yet counted
\* by the hostess are at most one, and no more passengers have passed the
\* admit channel than the hostess has raised.
OneAtCheckpoint ==
  /\ sem["passengersWaitInQueue"] + Cardinality(AtCheckpoint) <= 1
  /\ waited["passengersWaitInQueue"] <= raised["passengersWaitInQueue"]
  /\ raised["passengersWaitInQueue"] - Len(boardLog) <= 1

OneAtCheckpointWitness ==
  /\ sem["passengersWaitInQueue"] = 1
  /\ Cardinality({p \in Passengers : ppc[p] = "q_wait"}) >= 2
RendezvousCardinality ==
  /\ [](/\ raised["readyToFlight"] <= waited["readyForBoarding"]
        /\ waited["readyForBoarding"] <= raised["readyToFlight"] + 1)
  /\ [](hpc = "done" =>
          raised["readyToFlight"] = waited["readyForBoarding"])
  /\ [][/\ waited'["readyForBoarding"] # waited["readyForBoarding"] =>
             /\ waited'["readyForBoarding"] = waited["readyForBoarding"] + 1
             /\ raised["readyToFlight"] = waited["readyForBoarding"]
        /\ raised'["readyToFlight"] # raised["readyToFlight"] =>
             /\ raised'["readyToFlight"] = raised["readyToFlight"] + 1
             /\ waited["readyForBoarding"] = raised["readyToFlight"] + 1]_vars

RendezvousCardinalityWitness ==
  /\ hpc = "done"
  /\ raised["readyToFlight"] >= 2

\* C19: flight-ready is raised only after the flight's entry and
\* allBoardingComplete are written and the hostess has released the mutex,
\* and when the pilot consumes a unit the entry of the current flight is
\* recorded and allBoardingComplete equals (totalBoarded = N).
PublishBeforeSignal ==
  [][/\ raised'["readyToFlight"] # raised["readyToFlight"] =>
         /\ HostessId \notin holder
         /\ nFlight - 1 \in recorded
         /\ nPassengersInFlight[nFlight - 1] = nPassInFlight
         /\ finished = (totalPassBoarded = N)
     /\ waited'["readyToFlight"] # waited["readyToFlight"] =>
         /\ nFlight - 1 \in recorded
         /\ nPassengersInFlight[nFlight - 1] = nPassInFlight
         /\ finished = (totalPassBoarded = N)]_vars

PublishBeforeSignalWitness ==
  /\ plpc = "pl_fly"
  /\ finished
  /\ Cardinality(recorded) >= 2

\* C20: at every evaluation of the loop condition the local nPassengers
\* equals totalBoarded and the number of completed checkPassport calls, so
\* nPassengers < N is the same test as totalBoarded # N; totalBoarded
\* changes only in checkPassport, by exactly one, upwards.
LocalCounterAgrees ==
  /\ [](hpc = "main_while" =>
          /\ nPassengers = totalPassBoarded
          /\ nPassengers = Len(boardLog)
          /\ (nPassengers < N) <=> (totalPassBoarded # N))
  /\ [][totalPassBoarded' # totalPassBoarded =>
         /\ hpc = "cp_update"
         /\ totalPassBoarded' = totalPassBoarded + 1]_vars

LocalCounterAgreesWitness ==
  /\ hpc = "main_while"
  /\ nPassengers > 0
  /\ nPassengers < N
====
